---------------------------- MODULE Spec2Model ----------------------------
(* A model of raid_webapp/static/app.js: the browser-side controller of   *)
(* the raid game.  The program state is the module-level variables of the *)
(* script, the DOM fragments its handlers write, the browser's local      *)
(* storage and the requests in flight.  One action per event handler; a   *)
(* handler runs from its event to its next await, and continues when the  *)
(* awaited response is processed.                                         *)
(* Texts shown to the user are written in ASCII transliteration.          *)
EXTENDS Integers, Sequences, FiniteSets, TLC

VARIABLES
  authToken,        \* let authToken (line 122)
  statePayload,     \* const statePayload (lines 12-17): init_data, auth_token
  localStorage,     \* localStorage["raid_auth_token"] ("" when absent)
  tgInitAttempted,  \* let tgInitAttempted (line 124)
  tgAuthTimer,      \* let tgAuthTimer (line 123): TRUE while a timeout is armed
  currentState,     \* let currentState (line 120): the cached snapshot
  activeTab,        \* let activeTab (line 121)
  storageState,     \* const storageState (line 115)
  sellState,        \* const sellState (line 116)
  blueprintState,   \* const blueprintState (line 117)
  loadoutState,     \* const loadoutState (line 118)
  marketState,      \* const marketState (line 119)
  dom,              \* what the handlers have written into the page
  inflight,         \* requests sent and not yet answered, in the order sent
  tg,               \* tg.initData of the hosting Telegram client ("" when none)
  ev,               \* history: the event handled by the last step
  issued,           \* history: the requests the last step sent, in order
  focus,            \* history: the view group the user has worked in since
                    \* the page was loaded ("" when none yet)
  lastAuth          \* history: token of the latest successful exchange, ""
                    \* after a logout or a 401 handled by apiPost

vars == <<authToken, statePayload, localStorage, tgInitAttempted, tgAuthTimer,
          currentState, activeTab, storageState, sellState, blueprintState,
          loadoutState, marketState, dom, inflight, tg, ev, issued, focus,
          lastAuth>>

(* ------------------------------ bounds -------------------------------- *)
MaxInFlight == 2
MaxPage == 2

(* ------------------------------ values -------------------------------- *)
NoTok == ""
Tokens == {"T1", "T2"}
Msgs == {"", "msg"}
NoUser == [nickname |-> "", email |-> ""]
Users ==
  { [nickname |-> "Nick", email |-> "a@b.com"],
    [nickname |-> "", email |-> "a@b.com"],
    NoUser }
Pages == 1..MaxPage
EquipTypes == {"armor", "weapon"}
Tabs ==
  {"raid", "storage", "shop", "craft", "loadout", "warehouse", "quests",
   "market", "rating", "season", "case", "admin"}

(* A snapshot as /api/state, /api/raid/enter and /api/raid/action return  *)
(* it: the fields renderSession, renderQuests and renderActions read.     *)
(* session "null" stands for the JavaScript value null (no snapshot).     *)
Snap(session, hp, choice, item, med, fightCd, lootCd, quest) ==
  [session |-> session, hp |-> hp, choice |-> choice, pending_item |-> item,
   can_medkit |-> med,
   cooldowns |-> [fight |-> fightCd, medkit |-> fightCd, loot |-> lootCd,
                  move |-> lootCd, evac |-> 0],
   quests |-> quest]
NoState == Snap("null", 0, "none", FALSE, FALSE, 0, 0, "absent")
Snapshots ==
  { Snap("none", 0, "none", FALSE, FALSE, 0, 0, "ready"),
    Snap("raid", 1, "none", FALSE, TRUE, 0, 0, "locked"),
    Snap("raid", 2, "none", FALSE, FALSE, 0, 5, "absent"),
    Snap("combat", 1, "none", FALSE, FALSE, 0, 0, "none"),
    Snap("combat", 2, "none", FALSE, TRUE, 5, 0, "absent"),
    Snap("raid", 1, "some", TRUE, FALSE, 0, 0, "absent"),
    Snap("raid", 1, "empty", TRUE, FALSE, 0, 0, "absent") }

(* --------------------------- the page (DOM) --------------------------- *)
(* The markup the script is loaded into: no button disabled, the login    *)
(* card shown, every list empty.                                          *)
InitialDom ==
  [ loginStatus |-> <<"", "">>,
    loginCard |-> "shown",
    tgLoginWrap |-> "shown",
    loginBtn |-> "shown",
    logoutBtn |-> "shown",
    userLine |-> "",
    appDisabled |-> FALSE,        \* the static buttons (paging, quantity, ...)
    storageUpgrade |-> FALSE,     \* storageUpgrade.disabled
    caseOpen |-> FALSE,           \* caseOpen.disabled
    actionsBlock |-> [text |-> "", buttons |-> <<>>],
    sessionBlock |-> [status |-> "", hp |-> 0],
    logBlock |-> "",
    questBtns |-> <<>>,           \* .quest-claim buttons: their disabled flags
    shopBtns |-> <<>>,
    craftBtns |-> <<>>,
    blueprintBtns |-> <<>>,
    equipBtns |-> <<>>,
    lotBtns |-> <<>>,
    lots |-> "none",              \* the kind of the rendered lot buttons
    storagePage |-> 0,            \* page labels (0: nothing rendered yet)
    sellPage |-> 0,
    blueprintPage |-> 0,
    loadoutPage |-> 0,
    marketPage |-> 0,
    marketItemsPage |-> 0,
    storageList |-> {},
    caseList |-> {},
    sellList |-> {},
    sellSelected |-> "",
    marketItems |-> {},
    marketSelected |-> "",
    notice |-> [v \in {"storage", "sell", "shop", "craft", "blueprint",
                       "loadout", "case", "quest", "market", "admin"} |-> ""] ]

(* The states of the paginated views.                                     *)
Views ==
  [storage |-> storageState, sell |-> sellState, blueprint |-> blueprintState,
   loadout |-> loadoutState, market |-> marketState]

(* The state of the script as one record, so that a handler is the        *)
(* composition of the functions it calls.  out: the requests sent so far  *)
(* by the running step; thrown: how an exception raised in it ended;      *)
(* pre (history): the view states as they were when the user action that  *)
(* began the running handler happened.                                    *)
St ==
  [ authToken |-> authToken, statePayload |-> statePayload,
    localStorage |-> localStorage, tgInitAttempted |-> tgInitAttempted,
    tgAuthTimer |-> tgAuthTimer, currentState |-> currentState,
    activeTab |-> activeTab, storageState |-> storageState,
    sellState |-> sellState, blueprintState |-> blueprintState,
    loadoutState |-> loadoutState, marketState |-> marketState,
    dom |-> dom, out |-> <<>>, thrown |-> "none", pre |-> Views ]

hasAuth(s) == s.authToken # NoTok

SetAll(btns, disabled) == [i \in DOMAIN btns |-> disabled]

SetAllActions(block, disabled) ==
  [block EXCEPT !.buttons =
     [i \in DOMAIN block.buttons |-> [block.buttons[i] EXCEPT !.disabled = disabled]]]

(* toggleAppButtons: every button in the page that is neither a tab nor   *)
(* an auth button gets the given disabled flag.                           *)
toggleAppButtons(s, disabled) ==
  [s EXCEPT !.dom.appDisabled = disabled,
            !.dom.storageUpgrade = disabled,
            !.dom.caseOpen = disabled,
            !.dom.actionsBlock = SetAllActions(s.dom.actionsBlock, disabled),
            !.dom.questBtns = SetAll(s.dom.questBtns, disabled),
            !.dom.shopBtns = SetAll(s.dom.shopBtns, disabled),
            !.dom.craftBtns = SetAll(s.dom.craftBtns, disabled),
            !.dom.blueprintBtns = SetAll(s.dom.blueprintBtns, disabled),
            !.dom.equipBtns = SetAll(s.dom.equipBtns, disabled),
            !.dom.lotBtns = SetAll(s.dom.lotBtns, disabled)]

toggleAuthButtons(s, isAuthed) ==
  [s EXCEPT !.dom.loginBtn = IF isAuthed THEN "hidden" ELSE "shown",
            !.dom.logoutBtn = IF isAuthed THEN "shown" ELSE "hidden"]

loadAuthToken(s) ==
  [s EXCEPT !.authToken = s.localStorage,
            !.statePayload.auth_token =
               IF s.localStorage # NoTok THEN s.localStorage ELSE @]

(* user?.nickname || user?.email || "Polzovatel" *)
AuthName(user) ==
  IF user.nickname # "" THEN user.nickname
  ELSE IF user.email # "" THEN user.email
  ELSE "Polzovatel"

(* A text of the login status line: a fixed part and an inserted part.     *)
Status(text) == <<text, "">>
AuthLabel(user) == <<"Avtorizovan: ", AuthName(user)>>

setAuthToken_noPersist(s, token, user) ==
  toggleAuthButtons(
    toggleAppButtons(
      [s EXCEPT !.authToken = token,
                !.statePayload.auth_token = token,
                !.dom.loginStatus = AuthLabel(user),
                !.dom.loginCard = "hidden"],
      FALSE),
    TRUE)

setAuthToken(s, token, user) ==
  toggleAuthButtons(
    toggleAppButtons(
      [s EXCEPT !.authToken = token,
                !.statePayload.auth_token = token,
                !.localStorage = token,
                !.dom.loginStatus = AuthLabel(user),
                !.dom.loginCard = "hidden"],
      FALSE),
    TRUE)

clearAuthToken_keepsInitData(s, message) ==
  toggleAuthButtons(
    toggleAppButtons(
      [s EXCEPT !.authToken = NoTok,
                !.statePayload.auth_token = NoTok,
                !.localStorage = NoTok,
                !.dom.loginStatus =
                   Status(IF message # "" THEN message
                          ELSE "Avtorizaciya ne vypolnena."),
                !.dom.loginCard = "shown",
                !.dom.userLine = "Pilot: -"],
      TRUE),
    FALSE)

clearAuthToken(s, message) ==
  toggleAuthButtons(
    toggleAppButtons(
      [s EXCEPT !.authToken = NoTok,
                !.statePayload.auth_token = NoTok,
                !.statePayload.init_data = "",
                !.localStorage = NoTok,
                !.dom.loginStatus =
                   Status(IF message # "" THEN message
                          ELSE "Avtorizaciya ne vypolnena."),
                !.dom.loginCard = "shown",
                !.dom.userLine = "Pilot: -"],
      TRUE),
    FALSE)

(* ----------------------------- rendering ------------------------------ *)
renderSession(s, data) ==
  [s EXCEPT !.dom.sessionBlock =
     IF data.session \in {"none", "null"}
       THEN [status |-> "Net aktivnogo reida.", hp |-> 0]
       ELSE [status |-> IF data.session = "combat" THEN "Boi" ELSE "V reide",
             hp |-> data.hp]]

(* renderQuests: one claim button per quest, disabled unless the quest is *)
(* completed and unclaimed; nothing is touched when the snapshot has no   *)
(* quests.                                                                *)
renderQuests(s, quests) ==
  IF quests = "absent" THEN s
  ELSE [s EXCEPT !.dom.questBtns =
          IF quests = "ready" THEN <<FALSE>>
          ELSE IF quests = "locked" THEN <<TRUE>>
          ELSE <<>>]

Btn(label, secs, action, disabled) ==
  [label |-> label, secs |-> secs, action |-> action, disabled |-> disabled]

(* A button of an action with a cooldown: disabled, and labelled with the *)
(* seconds left, while the cooldown is positive.                          *)
CdBtn(label, action, cd) == Btn(label, cd, action, cd > 0)

WithButtons(s, btns) ==
  [s EXCEPT !.dom.actionsBlock = [text |-> "", buttons |-> btns]]

MedkitBtn(state) ==
  IF state.can_medkit
    THEN <<CdBtn("Rashodnik", "medkit", state.cooldowns.medkit)>>
    ELSE <<>>

renderActions_itemFirst(s, state) ==
  IF state = NoState
    THEN [s EXCEPT !.dom.actionsBlock = [text |-> "-", buttons |-> <<>>]]
  ELSE IF state.session = "none"
    THEN WithButtons(s, <<Btn("Voiti v reid", 0, "enter", FALSE)>>)
  ELSE IF state.pending_item
    THEN WithButtons([s EXCEPT !.dom.logBlock = "Naiden predmet"],
                     <<Btn("Vzyat", 0, "take", FALSE),
                       Btn("Ne brat", 0, "skip", FALSE)>>)
  ELSE IF state.choice = "some"
    THEN WithButtons(s, <<Btn("choice.label", 0, "choice:1", FALSE),
                          Btn("choice.label", 0, "choice:2", FALSE)>>)
  ELSE IF state.session = "combat"
    THEN WithButtons(s, <<CdBtn("Srazhatsya", "fight", state.cooldowns.fight)>>
                        \o MedkitBtn(state))
  ELSE WithButtons(s, <<CdBtn("Lutat", "loot", state.cooldowns.loot),
                        CdBtn("Idti dalshe", "move", state.cooldowns.move),
                        CdBtn("Evakuaciya", "evac", state.cooldowns.evac)>>
                      \o MedkitBtn(state))

renderActions(s, state) ==
  IF state = NoState
    THEN [s EXCEPT !.dom.actionsBlock = [text |-> "-", buttons |-> <<>>]]
  ELSE IF state.session = "none"
    THEN WithButtons(s, <<Btn("Voiti v reid", 0, "enter", FALSE)>>)
  ELSE
    LET s1 == IF state.choice # "none"
                THEN [s EXCEPT !.dom.logBlock = "pending.text"] ELSE s
    IN IF state.choice = "some"
         THEN WithButtons(s1, <<Btn("choice.label", 0, "choice:1", FALSE),
                                Btn("choice.label", 0, "choice:2", FALSE)>>)
       ELSE IF state.pending_item
         THEN WithButtons([s1 EXCEPT !.dom.logBlock = "Naiden predmet"],
                          <<Btn("Vzyat", 0, "take", FALSE),
                            Btn("Ne brat", 0, "skip", FALSE)>>)
       ELSE IF state.session = "combat"
         THEN WithButtons(s1,
                <<CdBtn("Srazhatsya", "fight", state.cooldowns.fight)>>
                \o MedkitBtn(state))
       ELSE WithButtons(s1,
                <<CdBtn("Lutat", "loot", state.cooldowns.loot),
                  CdBtn("Idti dalshe", "move", state.cooldowns.move),
                  CdBtn("Evakuaciya", "evac", state.cooldowns.evac)>>
                \o MedkitBtn(state))

(* updateCore: nothing without a credential; otherwise the snapshot is    *)
(* cached and rendered.  With data null the assignment happens and the    *)
(* read of data.user then throws a TypeError, which nothing catches.      *)
updateCore(s, data, message) ==
  IF ~hasAuth(s) THEN s
  ELSE IF data = NoState
    THEN [s EXCEPT !.currentState = data, !.thrown = "unhandled"]
  ELSE
    LET s1 == [s EXCEPT !.currentState = data, !.dom.userLine = "Pilot: name"]
        s2 == renderQuests(renderSession(s1, data), data.quests)
        s3 == IF message # "" THEN [s2 EXCEPT !.dom.logBlock = message] ELSE s2
    IN renderActions(s3, data)

(* ------------------------------ requests ------------------------------ *)
(* A request: its endpoint, the handler whose try block (if any) it runs  *)
(* in, the refreshes the handler awaits after it (k), the envelope, and   *)
(* the fields particular to the endpoint.  late (history): "no", or the   *)
(* session of the snapshot carried by the response, processed already, to *)
(* a raid request sent after this raid request.                           *)
Req(ep, h, k, s) ==
  [ep |-> ep, h |-> h, k |-> k,
   tok |-> s.statePayload.auth_token, pre |-> s.pre,
   late |-> "no",
   page |-> 0, ipage |-> 0, sort |-> "", item |-> 0, arg |-> ""]

Send(s, r) == [s EXCEPT !.out = Append(@, r)]

RECURSIVE Chain(_, _, _)

refreshCore(s, h, k) ==
  IF ~hasAuth(s) THEN Chain(s, h, k)
  ELSE Send(s, Req("state", h, k, s))

refreshStorage(s, h, k) ==
  Send(s, [Req("storage", h, k, s) EXCEPT !.page = s.storageState.page,
                                          !.sort = s.storageState.sort])

refreshSell(s, h, k) ==
  Send(s, [Req("sell", h, k, s) EXCEPT !.page = s.sellState.page,
                                       !.sort = s.sellState.sort])

refreshShop(s, h, k) == Send(s, Req("shop", h, k, s))

refreshCraft(s, h, k) == Send(s, Req("craft", h, k, s))

refreshBlueprints(s, h, k, customNotice) ==
  Send(s, [Req("blueprints", h, k, s) EXCEPT !.page = s.blueprintState.page,
                                             !.arg = customNotice])

refreshLoadout(s, h, k) == Send(s, Req("loadout", h, k, s))

refreshLoadoutOptions_noGuard(s, h, k) ==
  Send(s, [Req("loadout/options", h, k, s) EXCEPT
             !.arg = s.loadoutState.equipType, !.page = s.loadoutState.page])

refreshLoadoutOptions(s, h, k) ==
  IF s.loadoutState.equipType = "" THEN Chain(s, h, k)
  ELSE Send(s, [Req("loadout/options", h, k, s) EXCEPT
                  !.arg = s.loadoutState.equipType,
                  !.page = s.loadoutState.page])

refreshWarehouse(s, h, k) == Send(s, Req("warehouse", h, k, s))

refreshRating(s, h, k) == Send(s, Req("rating", h, k, s))

refreshCase(s, h, k) == Send(s, Req("daily_case", h, k, s))

refreshMarket(s, h, k) ==
  Send(s, [Req("market", h, k, s) EXCEPT !.page = s.marketState.page,
                                         !.ipage = s.marketState.itemsPage,
                                         !.sort = s.marketState.sort])

refreshSeason(s, h, k) == Send(s, Req("season", h, k, s))

refreshAdmin(s, h, k) == Send(s, Req("admin/state", h, k, s))

(* What a handler does after an awaited call returned: the next refresh   *)
(* it awaits, if any.                                                     *)
Chain(s, h, k) ==
  IF k = <<>> THEN s
  ELSE LET f == Head(k)
           rest == Tail(k)
       IN CASE f = "state" -> refreshCore(s, h, rest)
            [] f = "storage" -> refreshStorage(s, h, rest)
            [] f = "sell" -> refreshSell(s, h, rest)
            [] f = "shop" -> refreshShop(s, h, rest)
            [] f = "craft" -> refreshCraft(s, h, rest)
            [] f = "blueprints" -> refreshBlueprints(s, h, rest, "")
            [] f = "loadout" -> refreshLoadout(s, h, rest)
            [] f = "daily_case" -> refreshCase(s, h, rest)
            [] OTHER -> s

(* ----------------------------- responses ------------------------------ *)
(* What comes back for a request.  st: "ok" a 2xx JSON body with the      *)
(* endpoint's data; "nodata" a 2xx JSON body without it (for an auth      *)
(* endpoint: ok false or no token); "401"; "err" another non-2xx status;  *)
(* "net" the fetch itself failed; "badjson" a 2xx body that is not JSON.  *)
R0 ==
  [st |-> "ok", msg |-> "", token |-> NoTok, user |-> NoUser,
   state |-> NoState, page |-> 1, ipage |-> 1, sort |-> "rarity",
   items |-> {}, flag |-> FALSE, lots |-> "none"]

Failures == {"401", "err", "net", "badjson"}
AuthEps == {"auth/login", "auth/register", "auth/telegram", "auth/telegram/init"}
RaidEps == {"raid/enter", "raid/action"}

ItemLists == {{}, {1}, {2}}

(* The data the server is taken to answer with.                           *)
FullEnv ==
  [tokens |-> Tokens, users |-> Users, snaps |-> Snapshots, msgs |-> Msgs,
   failures |-> Failures, pages |-> Pages, lists |-> ItemLists,
   flags |-> BOOLEAN, lots |-> {"none", "buy", "cancel"}]
AuthEnv == [FullEnv EXCEPT !.snaps = {Snap("none", 0, "none", FALSE, FALSE, 0, 0, "ready")}]
RaidEnv ==
  [FullEnv EXCEPT !.tokens = {"T1"}, !.users = {NoUser}, !.msgs = {"msg"},
                  !.failures = {"401", "err"},
                  !.snaps = Snapshots]
ViewEnv ==
  [AuthEnv EXCEPT !.tokens = {"T1"}, !.users = {NoUser},
                  !.failures = {"401", "err"}]
PagingEnv == [ViewEnv EXCEPT !.lists = {{1}}, !.lots = {"none"}]
SelectEnv == [ViewEnv EXCEPT !.pages = {1}, !.flags = {FALSE}]
CaseEnv ==
  [ViewEnv EXCEPT !.msgs = {"msg"}, !.pages = {1}, !.lists = {{1}},
                  !.lots = {"none"}]
ShopEnv ==
  [ViewEnv EXCEPT !.msgs = {"msg"}, !.lists = {{1}}, !.flags = {FALSE},
                  !.lots = {"none"}, !.failures = {"err", "net"}]
TabEnv ==
  [ViewEnv EXCEPT !.msgs = {"msg"}, !.pages = {1}, !.lists = {{1}},
                  !.flags = {FALSE}, !.lots = {"none"}, !.failures = {"401"}]

OkResponses(req, env) ==
  CASE req.ep \in AuthEps ->
         {[R0 EXCEPT !.token = t, !.user = u] : t \in env.tokens, u \in env.users}
    [] req.ep = "state" -> {[R0 EXCEPT !.state = d] : d \in env.snaps}
    [] req.ep \in RaidEps ->
         {[R0 EXCEPT !.state = d, !.msg = m] : d \in env.snaps, m \in env.msgs}
    [] req.ep \in {"storage", "storage/upgrade"} ->
         {[R0 EXCEPT !.page = p, !.sort = req.sort, !.items = l, !.flag = f] :
            p \in env.pages, l \in env.lists, f \in env.flags}
    [] req.ep \in {"sell", "sell/confirm"} ->
         {[R0 EXCEPT !.page = p, !.sort = req.sort, !.items = l, !.msg = m] :
            p \in env.pages, l \in env.lists,
            m \in IF req.ep = "sell" THEN {""} ELSE env.msgs}
    [] req.ep \in {"market", "market/list", "market/buy", "market/cancel"} ->
         {[R0 EXCEPT !.page = p, !.ipage = q, !.items = l, !.lots = b, !.msg = m] :
            p \in env.pages, q \in env.pages, l \in env.lists, b \in env.lots,
            m \in IF req.ep = "market" THEN {""} ELSE env.msgs}
    [] req.ep \in {"blueprints", "loadout/options"} ->
         {[R0 EXCEPT !.page = p, !.items = l, !.flag = f] :
            p \in env.pages, l \in env.lists, f \in env.flags}
    [] req.ep = "daily_case/open" ->
         {[R0 EXCEPT !.items = l, !.msg = m] : l \in env.lists, m \in env.msgs}
    [] req.ep \in {"shop/buy", "craft/make", "blueprints/study"} ->
         {[R0 EXCEPT !.msg = m] : m \in env.msgs}
    [] req.ep \in {"shop", "craft", "daily_case"} ->
         {[R0 EXCEPT !.flag = f, !.msg = m] : f \in env.flags, m \in env.msgs}
    [] OTHER -> {R0}

Responses(req, env) ==
  OkResponses(req, env)
  \cup {[R0 EXCEPT !.st = "nodata", !.msg = m] : m \in env.msgs}
  \cup {[R0 EXCEPT !.st = f] : f \in env.failures}
  \cup (IF req.ep = "auth/telegram/init"
          THEN {[R0 EXCEPT !.st = f, !.msg = "msg"] : f \in {"401", "err"}}
          ELSE {})

Throw_uncaught(s, h) == [s EXCEPT !.thrown = "unhandled"]

(* The catch block a rejected await ends in: the auth handlers wrap their *)
(* awaits in try/catch, no other handler does.                            *)
Throw(s, h) ==
  CASE h = "login" ->
         [s EXCEPT !.dom.loginStatus = Status("Oshibka vhoda."),
                   !.thrown = "caught"]
    [] h = "register" ->
         [s EXCEPT !.dom.loginStatus = Status("Oshibka registracii."),
                   !.thrown = "caught"]
    [] h = "tgwidget" ->
         [s EXCEPT !.dom.loginStatus = Status("Oshibka Telegram-vhoda."),
                   !.thrown = "caught"]
    [] h = "tginit" ->
         [s EXCEPT !.dom.loginStatus =
                      <<"Oshibka avtorizacii cherez Telegram: ", "err.message">>,
                   !.thrown = "caught"]
    [] OTHER -> [s EXCEPT !.thrown = "unhandled"]

apiPostStatus_ignores401(s, st) == s

apiPostStatus_clearsOnAnyStatus(s, st) ==
  IF st \in {"401", "err"}
    THEN clearAuthToken(s, "Avtorizaciya istekla. Voidite snova.")
    ELSE s

(* apiPost, lines 669-672: a 401 clears the credential before the error   *)
(* is thrown.                                                             *)
apiPostStatus(s, st) ==
  IF st = "401" THEN clearAuthToken(s, "Avtorizaciya istekla. Voidite snova.")
  ELSE s

(* apiPost for a response that is not a 2xx JSON body: throws.            *)
apiPostFail(s, req, r) == Throw(apiPostStatus(s, r.st), req.h)

AuthFailText(h) ==
  CASE h = "login" -> "Oshibka vhoda."
    [] h = "register" -> "Oshibka registracii."
    [] OTHER -> "Oshibka Telegram-vhoda."

authDone_noRefresh(s, req, r) ==
  IF r.st = "ok" /\ r.token # NoTok
    THEN setAuthToken(s, r.token, r.user)
    ELSE [s EXCEPT !.dom.loginStatus =
            Status(IF r.msg # "" THEN r.msg ELSE AuthFailText(req.h))]

(* loginForm.onsubmit, registerForm.onsubmit and onTelegramAuth after     *)
(* their await: res.ok && res.token.                                      *)
authDone(s, req, r) ==
  IF r.st = "ok" /\ r.token # NoTok
    THEN refreshCore(setAuthToken(s, r.token, r.user), req.h, <<>>)
    ELSE [s EXCEPT !.dom.loginStatus =
            Status(IF r.msg # "" THEN r.msg ELSE AuthFailText(req.h))]

HttpStatus(st) ==
  CASE st = "401" -> "401" [] st = "err" -> "500" [] OTHER -> "200"

(* tryTelegramInitAuth after its await of apiPostRaw (lines 214-229):     *)
(* apiPostRaw throws only when the fetch fails, and never clears the      *)
(* credential.                                                            *)
tgInitDone(s, req, r) ==
  IF r.st = "net" THEN Throw(s, "tginit")
  ELSE IF r.st = "ok" /\ r.token # NoTok
    THEN refreshCore(setAuthToken(s, r.token, r.user), "tginit", <<>>)
  ELSE [s EXCEPT !.dom.loginStatus =
          IF r.msg # "" /\ r.st # "badjson" THEN Status(r.msg)
          ELSE <<"Oshibka avtorizacii cherez Telegram.", HttpStatus(r.st)>>]

(* ------------------------------- views -------------------------------- *)
Flags(items, disabled) == IF items = {} THEN <<>> ELSE <<disabled>>

(* renderStorage: the page label, the list and the upgrade button, whose  *)
(* disabled flag is !can_upgrade || points < upgrade_cost.                *)
renderStorage(s, r) ==
  [s EXCEPT !.dom.storagePage = r.page,
            !.dom.storageList = r.items,
            !.dom.storageUpgrade = r.flag]

(* renderSell: the selection is dropped only when the list is empty.      *)
renderSell(s, r) ==
  IF r.items = {}
    THEN [s EXCEPT !.dom.sellPage = r.page,
                   !.dom.sellList = {},
                   !.dom.sellSelected = "Vyberite predmet dlya prodazhi.",
                   !.sellState.selected = 0]
    ELSE [s EXCEPT !.dom.sellPage = r.page, !.dom.sellList = r.items]

(* renderMarket: the selection is dropped when its item is not among the  *)
(* items of the payload.                                                  *)
renderMarket(s, r) ==
  LET stale == s.marketState.selected # 0 /\ s.marketState.selected \notin r.items
  IN [s EXCEPT !.dom.marketItemsPage = r.ipage,
               !.dom.marketItems = r.items,
               !.marketState.selected = IF stale THEN 0 ELSE @,
               !.dom.marketSelected =
                  IF stale THEN "Vyberite predmet dlya lota." ELSE @,
               !.dom.marketPage = r.page,
               !.dom.lotBtns = IF r.lots = "none" THEN <<>> ELSE <<FALSE>>,
               !.dom.lots = r.lots]

(* refreshStorage after its await (lines 753-757).                        *)
storageDone(s, req, r) ==
  IF r.st = "ok"
    THEN renderStorage([s EXCEPT !.storageState.page = r.page,
                                 !.storageState.sort = r.sort], r)
    ELSE s

(* refreshSell after its await (lines 766-770).                           *)
sellDone(s, req, r) ==
  IF r.st = "ok"
    THEN renderSell([s EXCEPT !.sellState.page = r.page,
                              !.sellState.sort = r.sort], r)
    ELSE s

(* refreshMarket after its await (lines 1131-1136).                       *)
marketDone(s, req, r) ==
  IF r.st = "ok"
    THEN renderMarket([s EXCEPT !.marketState.page = r.page,
                                !.marketState.itemsPage = r.ipage,
                                !.marketState.sort = r.sort], r)
    ELSE s

(* refreshBlueprints after its await (lines 957-985).                     *)
blueprintsDone(s, req, r) ==
  IF r.st = "ok"
    THEN [s EXCEPT !.blueprintState.page = r.page,
                   !.dom.blueprintPage = r.page,
                   !.dom.blueprintBtns = Flags(r.items, r.flag),
                   !.dom.notice.blueprint = req.arg]
    ELSE s

(* refreshLoadoutOptions after its await (lines 1022-1040): the page      *)
(* label is written from the response, loadoutState.page is not; a body   *)
(* without options makes res.options.length throw.                        *)
loadoutOptionsDone(s, req, r) ==
  IF r.st = "ok"
    THEN [s EXCEPT !.dom.loadoutPage = r.page,
                   !.dom.equipBtns = Flags(r.items, FALSE)]
    ELSE [s EXCEPT !.dom.loadoutPage = 0, !.thrown = "unhandled"]

(* refreshShop after its await (lines 775-850).                           *)
shopDone(s, req, r) ==
  IF r.st = "ok"
    THEN [s EXCEPT !.dom.shopBtns = <<r.flag>>, !.dom.notice.shop = r.msg]
    ELSE s

(* refreshCraft after its await (lines 912-936).                          *)
craftDone(s, req, r) ==
  IF r.st = "ok" THEN [s EXCEPT !.dom.craftBtns = <<r.flag>>] ELSE s

(* refreshCase after its await (lines 1116-1121).                         *)
caseDone(s, req, r) ==
  IF r.st = "ok" THEN [s EXCEPT !.dom.caseOpen = r.flag] ELSE s

(* refreshAdmin after its await (lines 1148-1151).                        *)
adminDone(s, req, r) ==
  IF r.st = "ok" THEN s ELSE [s EXCEPT !.dom.notice.admin = r.msg]

(* A 2xx /api/state body without the snapshot's fields: an empty object.  *)
EmptySnap == Snap("none", 0, "none", FALSE, FALSE, 0, 0, "absent")

(* refreshCore after its await (line 744).                                *)
coreDone(s, req, r) ==
  updateCore(s, IF r.st = "ok" THEN r.state ELSE EmptySnap, "")

handleActionDone_dropsOvertaken(s, req, r) ==
  IF req.late # "no" THEN s
  ELSE updateCore(s, IF r.st = "ok" THEN r.state ELSE s.currentState, r.msg)

(* handleAction's then-callback (lines 1193, 1198):                       *)
(* updateCore(res.state || currentState, res.message).                    *)
handleActionDone(s, req, r) ==
  updateCore(s, IF r.st = "ok" THEN r.state ELSE s.currentState, r.msg)

(* [data-sell] onclick after its await (lines 1380-1384).                 *)
sellConfirmDone(s, req, r) ==
  LET s1 == [s EXCEPT !.dom.notice.sell = r.msg]
  IN IF r.st = "ok" THEN refreshCore(renderSell(s1, r), req.h, <<>>) ELSE s1

(* [data-market-qty] onclick after its await (lines 1431-1435).           *)
marketListDone(s, req, r) ==
  LET s1 == [s EXCEPT !.dom.notice.market = r.msg]
  IN IF r.st = "ok" THEN refreshCore(renderMarket(s1, r), req.h, <<>>) ELSE s1

(* .lot-buy and .lot-cancel onclick after their await (lines 528-530,     *)
(* 540-542): the core refresh is not conditional.                         *)
lotDone(s, req, r) ==
  LET s1 == [s EXCEPT !.dom.notice.market = r.msg]
  IN refreshCore(IF r.st = "ok" THEN renderMarket(s1, r) ELSE s1, req.h, <<>>)

(* .equip-btn onclick and [data-equip=clear] onclick after their await    *)
(* (lines 1049-1050, 1482-1483).                                          *)
loadoutSetDone(s, req, r) ==
  refreshLoadout([s EXCEPT !.dom.notice.loadout = r.msg], req.h, <<>>)

(* openCase after its first await (lines 1169-1186): the notice, the list *)
(* when the body has items, then the refreshes it awaits.                 *)
openCaseDone(s, req, r) ==
  Chain([s EXCEPT !.dom.notice.case = r.msg,
                  !.dom.caseList = IF r.st = "ok" THEN r.items ELSE @],
        req.h, req.k)

(* storageUpgrade.onclick after its await (lines 1313-1317).              *)
storageUpgradeDone(s, req, r) ==
  LET s1 == [s EXCEPT !.dom.notice.storage = r.msg]
  IN IF r.st = "ok" THEN refreshCore(renderStorage(s1, r), req.h, <<>>) ELSE s1

shopBuyDone_noAwait(s, req, r) ==
  LET s1 == [s EXCEPT !.dom.notice.shop = r.msg]
  IN IF r.st = "ok"
       THEN refreshCore(refreshShop(s1, req.h, <<>>), req.h, <<>>)
       ELSE s1

(* The shop's buy handlers after their await (lines 855-859, 870-874,     *)
(* 885-890, 900-905): the refreshes follow only when the body has a shop. *)
shopBuyDone(s, req, r) ==
  LET s1 == [s EXCEPT !.dom.notice.shop = r.msg]
  IN IF r.st = "ok" THEN Chain(s1, req.h, req.k) ELSE s1

(* .craft-btn onclick after its await (lines 944-947): the refreshes are  *)
(* not conditional.                                                       *)
craftMakeDone(s, req, r) ==
  Chain([s EXCEPT !.dom.notice.craft = r.msg], req.h, req.k)

(* .blueprint-btn onclick after its await (lines 993-995).                *)
studyDone(s, req, r) == refreshBlueprints(s, req.h, req.k, r.msg)

(* The continuation of the handler that awaits the request, run when the  *)
(* response is processed.                                                 *)
Process(s, req, r) ==
  IF req.ep = "auth/telegram/init" THEN tgInitDone(s, req, r)
  ELSE IF r.st \in Failures THEN apiPostFail(s, req, r)
  ELSE
    CASE req.ep \in AuthEps -> authDone(s, req, r)
      [] req.ep = "state" -> Chain(coreDone(s, req, r), req.h, req.k)
      [] req.ep \in RaidEps -> handleActionDone(s, req, r)
      [] req.ep = "storage" -> Chain(storageDone(s, req, r), req.h, req.k)
      [] req.ep = "sell" -> Chain(sellDone(s, req, r), req.h, req.k)
      [] req.ep = "market" -> Chain(marketDone(s, req, r), req.h, req.k)
      [] req.ep = "blueprints" -> Chain(blueprintsDone(s, req, r), req.h, req.k)
      [] req.ep = "loadout/options" -> loadoutOptionsDone(s, req, r)
      [] req.ep = "shop" -> Chain(shopDone(s, req, r), req.h, req.k)
      [] req.ep = "craft" -> Chain(craftDone(s, req, r), req.h, req.k)
      [] req.ep = "daily_case" -> Chain(caseDone(s, req, r), req.h, req.k)
      [] req.ep = "admin/state" -> Chain(adminDone(s, req, r), req.h, req.k)
      [] req.ep = "sell/confirm" -> sellConfirmDone(s, req, r)
      [] req.ep = "market/list" -> marketListDone(s, req, r)
      [] req.ep \in {"market/buy", "market/cancel"} -> lotDone(s, req, r)
      [] req.ep = "loadout/set" -> loadoutSetDone(s, req, r)
      [] req.ep = "daily_case/open" -> openCaseDone(s, req, r)
      [] req.ep = "storage/upgrade" -> storageUpgradeDone(s, req, r)
      [] req.ep = "shop/buy" -> shopBuyDone(s, req, r)
      [] req.ep = "craft/make" -> craftMakeDone(s, req, r)
      [] req.ep = "blueprints/study" -> studyDone(s, req, r)
      [] OTHER -> Chain(s, req.h, req.k)

(* ------------------------------ handlers ------------------------------ *)
(* showTab (lines 1205-1241): the refreshes of a tab are called one after *)
(* the other without await.                                               *)
showTabRefresh(s1, name) ==
  CASE name \in {"raid", "quests"} -> refreshCore(s1, "showTab", <<>>)
    [] name = "storage" -> refreshSell(refreshStorage(s1, "showTab", <<>>), "showTab", <<>>)
    [] name = "shop" -> refreshShop(s1, "showTab", <<>>)
    [] name = "craft" -> refreshBlueprints(refreshCraft(s1, "showTab", <<>>), "showTab", <<>>, "showTab")
    [] name = "loadout" -> refreshLoadout(s1, "showTab", <<>>)
    [] name = "warehouse" -> refreshWarehouse(s1, "showTab", <<>>)
    [] name = "market" -> refreshMarket(s1, "showTab", <<>>)
    [] name = "rating" -> refreshRating(s1, "showTab", <<>>)
    [] name = "season" -> refreshSeason(s1, "showTab", <<>>)
    [] name = "case" -> refreshCase(s1, "showTab", <<>>)
    [] name = "admin" -> refreshAdmin(s1, "showTab", <<>>)
    [] OTHER -> s1

showTab_noGuard(s, name) == showTabRefresh([s EXCEPT !.activeTab = name], name)

showTab(s, name) ==
  LET s1 == [s EXCEPT !.activeTab = name]
  IN IF ~hasAuth(s1) THEN s1 ELSE showTabRefresh(s1, name)

(* tryTelegramInitAuth up to its await (lines 205-213).                   *)
tryTelegramInitAuth(s, initData) ==
  IF s.tgInitAttempted \/ hasAuth(s) THEN s
  ELSE LET s1 == [s EXCEPT !.tgInitAttempted = TRUE]
       IN IF initData = "" THEN s1
          ELSE Send([s1 EXCEPT !.dom.tgLoginWrap = "hidden",
                               !.dom.loginStatus = Status("Vhod cherez Telegram...")],
                    [Req("auth/telegram/init", "tginit", <<>>, s1) EXCEPT
                       !.tok = NoTok])

(* The state the declarations of the script leave (lines 12-17, 115-124), *)
(* over the page as served and the storage as found.                      *)
Fresh(stored, initData) ==
  [ authToken |-> NoTok,
    statePayload |-> [init_data |-> initData, auth_token |-> NoTok],
    localStorage |-> stored,
    tgInitAttempted |-> FALSE,
    tgAuthTimer |-> FALSE,
    currentState |-> NoState,
    activeTab |-> "raid",
    storageState |-> [page |-> 1, sort |-> "rarity"],
    sellState |-> [page |-> 1, sort |-> "rarity", selected |-> 0],
    blueprintState |-> [page |-> 1],
    loadoutState |-> [page |-> 1, equipType |-> ""],
    marketState |-> [itemsPage |-> 1, page |-> 1, sort |-> "rarity", selected |-> 0],
    dom |-> InitialDom, out |-> <<>>, thrown |-> "none",
    pre |-> [storage |-> [page |-> 1, sort |-> "rarity"],
             sell |-> [page |-> 1, sort |-> "rarity", selected |-> 0],
             blueprint |-> [page |-> 1],
             loadout |-> [page |-> 1, equipType |-> ""],
             market |-> [itemsPage |-> 1, page |-> 1, sort |-> "rarity",
                         selected |-> 0]] ]

loadRestore_alwaysTelegram(s, initData) ==
  LET s1 == loadAuthToken(s)
      s2 == IF hasAuth(s1) THEN setAuthToken(s1, s1.authToken, NoUser)
            ELSE toggleAuthButtons(s1, FALSE)
  IN [tryTelegramInitAuth([s2 EXCEPT !.authToken = NoTok], initData)
        EXCEPT !.authToken = s2.authToken]

(* The statements the script runs when loaded, lines 194-202.             *)
loadRestore(s, initData) ==
  LET s1 == loadAuthToken(s)
      s2 == IF hasAuth(s1) THEN setAuthToken(s1, s1.authToken, NoUser)
            ELSE toggleAuthButtons(s1, FALSE)
  IN IF ~hasAuth(s2) THEN tryTelegramInitAuth(s2, initData) ELSE s2

(* The statements the script runs when loaded, lines 1530-1535.           *)
loadTail(s) ==
  LET s1 == IF ~hasAuth(s)
              THEN toggleAppButtons(
                     renderActions([s EXCEPT !.dom.userLine = "Nuzhen vhod po pochte."],
                                   NoState),
                     TRUE)
              ELSE s
  IN showTab(s1, "raid")

LoadPage(stored, initData) == loadTail(loadRestore(Fresh(stored, initData), initData))

(* loginForm.onsubmit and registerForm.onsubmit up to their await.        *)
submitAuth(s, ep, h) == Send(s, [Req(ep, h, <<>>, s) EXCEPT !.tok = NoTok])

(* window.onTelegramAuth up to its await (lines 1258-1276).               *)
onTelegramAuth(s, user) ==
  IF user = "null"
    THEN [s EXCEPT !.dom.loginStatus = Status("Oshibka Telegram-vhoda.")]
    ELSE submitAuth([s EXCEPT !.dom.loginStatus = Status("Telegram: id=..."),
                              !.tgAuthTimer = FALSE],
                    "auth/telegram", "tgwidget")

(* The click listener of tgLoginWrap (lines 1289-1302).                   *)
tgLoginWrapClick(s) ==
  [s EXCEPT !.dom.loginStatus = Status("Ozhidaem avtorizaciyu Telegram..."),
            !.tgAuthTimer = TRUE]

tgAuthTimeout_clears(s) ==
  clearAuthToken([s EXCEPT !.tgAuthTimer = FALSE], "Telegram ne vernul dannye.")

(* The timeout armed by that listener (lines 1296-1301).                  *)
tgAuthTimeout(s) ==
  LET s1 == [s EXCEPT !.tgAuthTimer = FALSE]
  IN IF ~hasAuth(s1)
       THEN [s1 EXCEPT !.dom.loginStatus = Status("Telegram ne vernul dannye.")]
       ELSE s1

loginBtnClick(s) == [s EXCEPT !.dom.loginCard = "shown"]

(* logoutBtn.onclick (lines 1345-1349).                                   *)
logoutClick(s) ==
  renderActions(
    [clearAuthToken(s, "Vy vyshli iz akkaunta.") EXCEPT !.currentState = NoState],
    NoState)

(* handleAction up to its fetch (lines 1189-1199).                        *)
handleAction(s, action) ==
  IF ~hasAuth(s) THEN s
  ELSE Send(s, [Req(IF action = "enter" THEN "raid/enter" ELSE "raid/action",
                    "", <<>>, s) EXCEPT !.arg = action])

(* Paging controls (lines 1248-1255, 1304-1309, 1352-1365, 1388-1415,    *)
(* 1439-1467): "previous" acts only above page 1, "next" always.          *)
storagePrevClick(s) ==
  IF s.storageState.page > 1
    THEN refreshStorage([s EXCEPT !.storageState.page = @ - 1], "", <<>>)
    ELSE s

(* storageSearch.oninput: the list is fetched again, on the stored page.  *)
storageSearchInput(s) == refreshStorage(s, "", <<>>)

storageNextClick(s) == refreshStorage([s EXCEPT !.storageState.page = @ + 1], "", <<>>)

sellPrevClick(s) ==
  IF s.sellState.page > 1
    THEN refreshSell([s EXCEPT !.sellState.page = @ - 1], "", <<>>)
    ELSE s

sellNextClick(s) == refreshSell([s EXCEPT !.sellState.page = @ + 1], "", <<>>)

marketItemsPrevClick(s) ==
  IF s.marketState.itemsPage > 1
    THEN refreshMarket([s EXCEPT !.marketState.itemsPage = @ - 1], "", <<>>)
    ELSE s

marketItemsNextClick(s) ==
  refreshMarket([s EXCEPT !.marketState.itemsPage = @ + 1], "", <<>>)

marketPrevClick(s) ==
  IF s.marketState.page > 1
    THEN refreshMarket([s EXCEPT !.marketState.page = @ - 1], "", <<>>)
    ELSE s

marketNextClick(s) == refreshMarket([s EXCEPT !.marketState.page = @ + 1], "", <<>>)

blueprintPrevClick(s) ==
  IF s.blueprintState.page > 1
    THEN refreshBlueprints([s EXCEPT !.blueprintState.page = @ - 1], "", <<>>, "")
    ELSE s

blueprintNextClick(s) ==
  refreshBlueprints([s EXCEPT !.blueprintState.page = @ + 1], "", <<>>, "")

loadoutPrevClick(s) ==
  IF s.loadoutState.page > 1
    THEN refreshLoadoutOptions([s EXCEPT !.loadoutState.page = @ - 1], "", <<>>)
    ELSE s

loadoutNextClick(s) ==
  refreshLoadoutOptions([s EXCEPT !.loadoutState.page = @ + 1], "", <<>>)

PagedViews == {"storage", "sell", "marketItems", "market", "blueprint", "loadout"}

(* The page number a view keeps.                                          *)
PageOf(s, view) ==
  CASE view = "storage" -> s.storageState.page
    [] view = "sell" -> s.sellState.page
    [] view = "marketItems" -> s.marketState.itemsPage
    [] view = "market" -> s.marketState.page
    [] view = "blueprint" -> s.blueprintState.page
    [] view = "loadout" -> s.loadoutState.page

pageClick(s, view, dir) ==
  CASE view = "storage" ->
         IF dir = "prev" THEN storagePrevClick(s) ELSE storageNextClick(s)
    [] view = "sell" ->
         IF dir = "prev" THEN sellPrevClick(s) ELSE sellNextClick(s)
    [] view = "marketItems" ->
         IF dir = "prev" THEN marketItemsPrevClick(s) ELSE marketItemsNextClick(s)
    [] view = "market" ->
         IF dir = "prev" THEN marketPrevClick(s) ELSE marketNextClick(s)
    [] view = "blueprint" ->
         IF dir = "prev" THEN blueprintPrevClick(s) ELSE blueprintNextClick(s)
    [] view = "loadout" ->
         IF dir = "prev" THEN loadoutPrevClick(s) ELSE loadoutNextClick(s)

(* The onclick of a row rendered by renderSell (lines 304-307).           *)
sellRowClick(s, item) ==
  [s EXCEPT !.sellState.selected = item, !.dom.sellSelected = "Vybrano"]

(* The onclick of a row rendered by renderMarket (lines 491-494).         *)
marketRowClick(s, item) ==
  [s EXCEPT !.marketState.selected = item, !.dom.marketSelected = "Vybrano"]

sellQtyClick_sendsUnselected(s) ==
  Send(s, [Req("sell/confirm", "", <<>>, s) EXCEPT
             !.item = s.sellState.selected,
             !.page = s.sellState.page, !.sort = s.sellState.sort])

(* [data-sell] onclick up to its await (lines 1367-1379).                 *)
sellQtyClick(s) ==
  IF s.sellState.selected = 0
    THEN [s EXCEPT !.dom.notice.sell = "Snachala vyberite predmet."]
    ELSE Send(s, [Req("sell/confirm", "", <<>>, s) EXCEPT
                    !.item = s.sellState.selected,
                    !.page = s.sellState.page, !.sort = s.sellState.sort])

(* [data-market-qty] onclick up to its await (lines 1418-1430).           *)
marketQtyClick(s) ==
  IF s.marketState.selected = 0
    THEN [s EXCEPT !.dom.notice.market = "Snachala vyberite predmet."]
    ELSE Send(s, [Req("market/list", "", <<>>, s) EXCEPT
                    !.item = s.marketState.selected])

(* .lot-buy and .lot-cancel onclick up to their await (lines 522-527,     *)
(* 534-539).                                                              *)
lotClick(s) ==
  Send(s, Req(IF s.dom.lots = "cancel" THEN "market/cancel" ELSE "market/buy",
              "", <<>>, s))

(* [data-equip] onclick up to its await (lines 1470-1488).                *)
equipClick(s, type) ==
  IF type = "clear"
    THEN IF s.loadoutState.equipType = ""
           THEN [s EXCEPT !.dom.notice.loadout = "Snachala vyberite slot."]
           ELSE Send(s, [Req("loadout/set", "", <<>>, s) EXCEPT
                           !.arg = s.loadoutState.equipType])
    ELSE refreshLoadoutOptions(
           [s EXCEPT !.loadoutState.equipType = type, !.loadoutState.page = 1],
           "", <<>>)

(* storageUpgrade.onclick up to its await (lines 1311-1312).              *)
storageUpgradeClick(s) == Send(s, Req("storage/upgrade", "storageUpgrade", <<>>, s))

ShopKinds == {"item", "offer", "recipe", "upgrade"}

(* The refreshes a buy handler of the shop awaits after a purchase.       *)
ShopRefreshes(kind) ==
  CASE kind = "recipe" -> <<"shop", "state", "craft">>
    [] kind = "upgrade" -> <<"shop", "storage", "state">>
    [] OTHER -> <<"shop", "state">>

shopBuyClick_resetsStorage(s, kind) ==
  Send([s EXCEPT !.storageState.page = 1],
       [Req("shop/buy", "shopBuy", ShopRefreshes(kind), s) EXCEPT !.arg = kind])

(* The shop's buy handlers up to their await (lines 853-854, 864-869,     *)
(* 879-884, 895-899).                                                     *)
shopBuyClick(s, kind) ==
  Send(s, [Req("shop/buy", "shopBuy", ShopRefreshes(kind), s) EXCEPT !.arg = kind])

(* .craft-btn onclick up to its await (lines 938-943).                    *)
craftClick(s) ==
  Send(s, Req("craft/make", "craftMake", <<"craft", "storage", "state">>, s))

(* .blueprint-btn onclick up to its await (lines 987-992).                *)
studyClick(s) ==
  Send(s, Req("blueprints/study", "study", <<"craft", "storage">>, s))

openCase_storageFirst(s) ==
  Send(s, Req("daily_case/open", "openCase", <<"storage", "daily_case", "state">>, s))

(* openCase up to its first await (line 1168), with the refreshes it      *)
(* awaits afterwards (lines 1184-1186).                                   *)
openCase(s) ==
  Send(s, Req("daily_case/open", "openCase", <<"daily_case", "storage", "state">>, s))

(* ------------------------------- actions ------------------------------- *)
Req0 == Req("", "", <<>>, Fresh(NoTok, ""))

(* The record of the event a step handles: what it is and, for a         *)
(* response, the handler awaiting it, the credential its request carried  *)
(* and what came back; was: the credential held when the step began;      *)
(* thrown: how an exception raised in the step ended; pre: for a          *)
(* response, the view states before the user action that led to it;      *)
(* late: for a response, whether a later request's response came first.   *)
Ev(op, name, req, r) ==
  [op |-> op, name |-> name, h |-> req.h, tok |-> req.tok, r |-> r,
   was |-> authToken, thrown |-> "none", pre |-> req.pre, late |-> req.late]

(* A step ends in the state s its handler computed; the requests it sent  *)
(* join those still unanswered (rest).                                    *)
Commit(s, rest, e, la, fo) ==
  /\ Len(rest) + Len(s.out) <= MaxInFlight
  /\ focus' = fo
  /\ authToken' = s.authToken
  /\ statePayload' = s.statePayload
  /\ localStorage' = s.localStorage
  /\ tgInitAttempted' = s.tgInitAttempted
  /\ tgAuthTimer' = s.tgAuthTimer
  /\ currentState' = s.currentState
  /\ activeTab' = s.activeTab
  /\ storageState' = s.storageState
  /\ sellState' = s.sellState
  /\ blueprintState' = s.blueprintState
  /\ loadoutState' = s.loadoutState
  /\ marketState' = s.marketState
  /\ dom' = s.dom
  /\ inflight' = rest \o s.out
  /\ issued' = s.out
  /\ ev' = [e EXCEPT !.thrown = s.thrown]
  /\ lastAuth' = la
  /\ tg' = tg

InitWith(proofs) ==
  \E initData \in proofs :
    LET s == LoadPage(NoTok, initData)
    IN /\ authToken = s.authToken
       /\ statePayload = s.statePayload
       /\ localStorage = s.localStorage
       /\ tgInitAttempted = s.tgInitAttempted
       /\ tgAuthTimer = s.tgAuthTimer
       /\ currentState = s.currentState
       /\ activeTab = s.activeTab
       /\ storageState = s.storageState
       /\ sellState = s.sellState
       /\ blueprintState = s.blueprintState
       /\ loadoutState = s.loadoutState
       /\ marketState = s.marketState
       /\ dom = s.dom
       /\ inflight = s.out
       /\ issued = s.out
       /\ ev = [Ev("load", "", Req0, R0) EXCEPT !.was = NoTok]
       /\ lastAuth = NoTok
       /\ focus = ""
       /\ tg = initData

(* The page is loaded with nothing stored, inside Telegram (with init     *)
(* data) or in a browser (without).                                       *)
Init == InitWith({"", "proof"})

(* The page is loaded in a browser.                                       *)
InitBrowser == InitWith({""})

(* A step of a handler that belongs to no view group.                     *)
Plain(s, e) == Commit(s, inflight, e, lastAuth, focus)

(* A step of a control of view group g: the user stays in one view group  *)
(* between two page loads, and uses its controls when no request is       *)
(* pending.                                                               *)
InGroup(g, s, e) ==
  /\ focus \in {"", g}
  /\ inflight = <<>>
  /\ Commit(s, inflight, e, lastAuth, g)

(* The page is loaded again: the script starts over, the local storage    *)
(* stays, the responses to the old page's requests reach nobody.          *)
Reload ==
  Commit(LoadPage(localStorage, tg), <<>>, Ev("load", "", Req0, R0), lastAuth, "")

LoginSubmit ==
  /\ dom.loginCard = "shown"
  /\ Plain(submitAuth(St, "auth/login", "login"), Ev("submit", "login", Req0, R0))

RegisterSubmit ==
  /\ dom.loginCard = "shown"
  /\ Plain(submitAuth(St, "auth/register", "register"),
           Ev("submit", "register", Req0, R0))

TelegramAuth ==
  /\ dom.loginCard = "shown"
  /\ dom.tgLoginWrap = "shown"
  /\ \E user \in {"null", "user"} :
       Plain(onTelegramAuth(St, user), Ev("widget", user, Req0, R0))

TelegramWrapClick ==
  /\ dom.loginCard = "shown"
  /\ dom.tgLoginWrap = "shown"
  /\ Plain(tgLoginWrapClick(St), Ev("click", "tgLoginWrap", Req0, R0))

TelegramTimeout ==
  /\ tgAuthTimer
  /\ Plain(tgAuthTimeout(St), Ev("timer", "tgAuthTimer", Req0, R0))

LoginBtnClick ==
  /\ dom.loginBtn = "shown"
  /\ Plain(loginBtnClick(St), Ev("click", "loginBtn", Req0, R0))

LogoutClick ==
  /\ dom.logoutBtn = "shown"
  /\ Commit(logoutClick(St), inflight, Ev("click", "logoutBtn", Req0, R0), NoTok,
            focus)

(* The view group a tab belongs to ("" for the raid and quests tabs,      *)
(* which show the snapshot).                                              *)
TabGroup(name) == IF name \in {"raid", "quests"} THEN "" ELSE name

TabClick ==
  \E name \in Tabs :
    IF TabGroup(name) = ""
      THEN Plain(showTab(St, name), Ev("tab", name, Req0, R0))
      ELSE InGroup(TabGroup(name), showTab(St, name), Ev("tab", name, Req0, R0))

(* A click on an enabled button of the actions block.                     *)
ActionClick ==
  \E i \in DOMAIN dom.actionsBlock.buttons :
    /\ ~dom.actionsBlock.buttons[i].disabled
    /\ Plain(handleAction(St, dom.actionsBlock.buttons[i].action),
             Ev("action", dom.actionsBlock.buttons[i].action, Req0, R0))

(* The views one response renders together.                              *)
ViewGroup(view) == IF view = "marketItems" THEN "market" ELSE view

PageClick ==
  /\ ~dom.appDisabled
  /\ \E view \in PagedViews, dir \in {"prev", "next"} :
       /\ dir = "next" => PageOf(St, view) < MaxPage
       /\ InGroup(ViewGroup(view), pageClick(St, view, dir), Ev(dir, view, Req0, R0))

SellRowClick ==
  \E item \in dom.sellList :
    InGroup("sell", sellRowClick(St, item), Ev("row", "sell", Req0, R0))

MarketRowClick ==
  \E item \in dom.marketItems :
    InGroup("market", marketRowClick(St, item), Ev("row", "market", Req0, R0))

SellQtyClick ==
  /\ ~dom.appDisabled
  /\ InGroup("sell", sellQtyClick(St), Ev("click", "data-sell", Req0, R0))

MarketQtyClick ==
  /\ ~dom.appDisabled
  /\ InGroup("market", marketQtyClick(St), Ev("click", "data-market-qty", Req0, R0))

LotClick ==
  /\ dom.lotBtns = <<FALSE>>
  /\ InGroup("market", lotClick(St), Ev("click", "lot", Req0, R0))

EquipClick ==
  /\ ~dom.appDisabled
  /\ \E type \in EquipTypes \cup {"clear"} :
       InGroup("loadout", equipClick(St, type),
               Ev("click", IF type = "clear" THEN "data-equip=clear" ELSE "data-equip",
                  Req0, R0))

StorageUpgradeClick ==
  /\ ~dom.storageUpgrade
  /\ InGroup("storage", storageUpgradeClick(St),
             Ev("click", "storageUpgrade", Req0, R0))

(* A click on an enabled buy button of the rendered shop.                 *)
ShopBuyClick ==
  /\ dom.shopBtns = <<FALSE>>
  /\ \E kind \in ShopKinds :
       InGroup("shop", shopBuyClick(St, kind), Ev("click", "buy", Req0, R0))

(* A click on an enabled craft button of the rendered recipes.            *)
CraftClick ==
  /\ dom.craftBtns = <<FALSE>>
  /\ InGroup("craft", craftClick(St), Ev("click", "craft-btn", Req0, R0))

(* A click on an enabled study button of the rendered blueprints.         *)
StudyClick ==
  /\ dom.blueprintBtns = <<FALSE>>
  /\ InGroup("craft", studyClick(St), Ev("click", "blueprint-btn", Req0, R0))

(* caseOpen.onclick (lines 1493-1495).                                    *)
(* The search field is an input, not a button: toggleAppButtons never     *)
(* disables it, so it can be typed into at any time.                      *)
StorageSearchInput ==
  InGroup("storage", storageSearchInput(St), Ev("input", "storageSearch", Req0, R0))

CaseOpenClick ==
  /\ ~dom.caseOpen
  /\ Plain(openCase(St), Ev("click", "caseOpen", Req0, R0))

Without(seq, i) == SubSeq(seq, 1, i - 1) \o SubSeq(seq, i + 1, Len(seq))

(* The requests left in flight when the response r to the i-th is         *)
(* processed: the raid requests sent before a raid request are overtaken. *)
Overtake(seq, i, r) ==
  [j \in 1..(Len(seq) - 1) |->
     IF j < i /\ seq[i].ep \in RaidEps /\ seq[j].ep \in RaidEps /\ r.st = "ok"
       THEN [seq[j] EXCEPT !.late = r.state.session]
       ELSE Without(seq, i)[j]]

(* The response to one of the requests in flight arrives, in any order,   *)
(* and the handler awaiting it continues.                                 *)
Respond(env) ==
  \E i \in DOMAIN inflight :
    \E r \in Responses(inflight[i], env) :
      LET req == inflight[i]
      IN Commit(Process([St EXCEPT !.pre = req.pre], req, r), Overtake(inflight, i, r),
                Ev("response", req.ep, req, r),
                IF r.st = "401" THEN NoTok
                ELSE IF req.ep \in AuthEps /\ r.st = "ok" THEN r.token
                ELSE lastAuth,
                focus)

(* The authentication lifecycle.                                          *)
Next ==
  \/ Reload
  \/ LoginSubmit
  \/ RegisterSubmit
  \/ TelegramAuth
  \/ TelegramWrapClick
  \/ TelegramTimeout
  \/ LoginBtnClick
  \/ LogoutClick
  \/ Respond(AuthEnv)

Spec == Init /\ [][Next]_vars

(* The raid: the snapshot and the actions block.                          *)
RaidNext == LoginSubmit \/ LogoutClick \/ ActionClick \/ Respond(RaidEnv)

SpecRaid == Init /\ [][RaidNext]_vars

(* The tabs.                                                              *)
TabsNext == LoginSubmit \/ TabClick \/ Respond(TabEnv)

SpecTabs == InitBrowser /\ [][TabsNext]_vars

(* The page buttons of the paginated views.                               *)
ViewsNext == LoginSubmit \/ PageClick \/ EquipClick \/ Respond(PagingEnv)

SpecViews == InitBrowser /\ [][ViewsNext]_vars

(* The selections of the sell and market views.                           *)
SelectNext ==
  \/ LoginSubmit
  \/ PageClick
  \/ SellRowClick
  \/ MarketRowClick
  \/ SellQtyClick
  \/ MarketQtyClick
  \/ LotClick
  \/ Respond(SelectEnv)

SpecSelect == InitBrowser /\ [][SelectNext]_vars

(* The handlers that refresh several views: the tabs, the shop, the       *)
(* recipes, the blueprints and the storage upgrade.                       *)
ShopNext ==
  \/ LoginSubmit
  \/ TabClick
  \/ PageClick
  \/ StorageUpgradeClick
  \/ ShopBuyClick
  \/ CraftClick
  \/ StudyClick
  \/ Respond(ShopEnv)

SpecShop == InitBrowser /\ [][ShopNext]_vars

(* The daily case.                                                        *)
CaseNext ==
  LoginSubmit \/ LogoutClick \/ CaseOpenClick \/ StorageSearchInput \/ Respond(CaseEnv)

SpecCase == InitBrowser /\ [][CaseNext]_vars

(* ------------------------------ properties ----------------------------- *)
(* Every button that toggleAppButtons reaches carries the given flag.     *)
ControlsAre(d, disabled) ==
  /\ d.appDisabled = disabled
  /\ d.storageUpgrade = disabled
  /\ d.caseOpen = disabled
  /\ \A i \in DOMAIN d.actionsBlock.buttons :
       d.actionsBlock.buttons[i].disabled = disabled
  /\ \A btns \in {d.questBtns, d.shopBtns, d.craftBtns, d.blueprintBtns,
                   d.equipBtns, d.lotBtns} :
       \A i \in DOMAIN btns : btns[i] = disabled

(* No credential is held, in memory or in the local storage.              *)
NoCredential == authToken = NoTok /\ localStorage = NoTok

(* The step that led here processed a response with status 401.           *)
Got401 == ev.op = "response" /\ ev.r.st = "401"

AuthSucceeded == ev.op = "response" /\ ev.name \in AuthEps /\ ev.r.st = "ok"

BecameUnauthenticated == ev.was # NoTok /\ authToken = NoTok

(* C4: a step that takes the controller from authenticated to             *)
(* unauthenticated is a logout click or a 401 response, and it leaves the *)
(* local storage without credential, the envelope without credential and  *)
(* without Telegram init data, every game-action control disabled, the    *)
(* login card and the login button shown and the logout button hidden.    *)
C4_IntoUnauthenticated ==
  BecameUnauthenticated =>
    /\ (ev.op = "click" /\ ev.name = "logoutBtn") \/ Got401
    /\ localStorage = NoTok
    /\ statePayload.auth_token = NoTok
    /\ statePayload.init_data = ""
    /\ ControlsAre(dom, TRUE)
    /\ dom.loginCard = "shown"
    /\ dom.loginBtn = "shown"
    /\ dom.logoutBtn = "hidden"

(* A 401 ended a session that began with the silent Telegram exchange:    *)
(* the envelope carried the init data until then.                         *)
C4_Witness ==
  /\ BecameUnauthenticated
  /\ Got401
  /\ tg = "proof"
  /\ statePayload.init_data = ""

(* The step that led here loaded the page.                                *)
Loaded == ev.op = "load"

(* C5: a page load restores the credential the local storage holds.  If   *)
(* one was restored, the load sends no auth request and sends the         *)
(* /api/state request; if none was, the load sends the silent Telegram    *)
(* exchange exactly when Telegram init data exists, and nothing else, and *)
(* leaves the controller unauthenticated with the login card shown and    *)
(* the game controls disabled; a silent exchange that yields no           *)
(* credential leaves it so.                                               *)
C5_PageLoad ==
  /\ Loaded /\ localStorage # NoTok =>
       /\ authToken = localStorage
       /\ Len(issued) = 1
       /\ issued[1].ep = "state"
       /\ issued[1].tok = localStorage
  /\ Loaded /\ localStorage = NoTok =>
       /\ authToken = NoTok
       /\ \A i \in DOMAIN issued : issued[i].ep = "auth/telegram/init"
       /\ Len(issued) = (IF tg # "" THEN 1 ELSE 0)
       /\ dom.loginCard = "shown"
       /\ ControlsAre(dom, TRUE)
  /\ (/\ ev.op = "response"
      /\ ev.name = "auth/telegram/init"
      /\ ev.r.st # "ok"
      /\ ev.was = NoTok) =>
       /\ authToken = NoTok
       /\ dom.loginCard = "shown"
       /\ ControlsAre(dom, TRUE)

(* A reload inside Telegram with a stored credential: the credential is   *)
(* restored and the state is fetched, the silent exchange is not tried.   *)
C5_Witness ==
  /\ Loaded
  /\ tg # ""
  /\ localStorage # NoTok
  /\ authToken = localStorage
  /\ ~tgInitAttempted
  /\ Len(issued) = 1
  /\ issued[1].ep = "state"

(* The step that led here processed the failure of an auth attempt: the  *)
(* fetch failed, the body was not JSON, or the status was not 2xx.        *)
AuthFailed == ev.op = "response" /\ ev.name \in AuthEps /\ ev.r.st \in Failures

(* The texts an auth handler writes to the login status line on failure.  *)
AuthFailureTexts ==
  {"Oshibka vhoda.", "Oshibka registracii.", "Oshibka Telegram-vhoda.",
   "Oshibka avtorizacii cherez Telegram: ",
   "Oshibka avtorizacii cherez Telegram.", "msg"}

(* C6, as the claim states it: a failed auth attempt shows a message in   *)
(* the login status line and leaves no credential in memory or in the     *)
(* local storage, and its exception does not escape the handler.          *)
C6_FailureLeavesUnauthenticated ==
  AuthFailed =>
    /\ dom.loginStatus[1] \in AuthFailureTexts
    /\ ev.thrown # "unhandled"
    /\ NoCredential

(* C6, amended: a failed auth attempt shows a message in the login status *)
(* line, its exception does not escape the handler, and it sets no        *)
(* credential: the credential in memory and in the local storage is the   *)
(* one held before (none for an unauthenticated controller), or none      *)
(* after a 401 from an endpoint called through apiPost.                   *)
C6_FailureSetsNoCredential ==
  AuthFailed =>
    /\ dom.loginStatus[1] \in AuthFailureTexts
    /\ ev.thrown # "unhandled"
    /\ authToken =
         (IF ev.r.st = "401" /\ ev.name # "auth/telegram/init" THEN NoTok ELSE ev.was)
    /\ localStorage = authToken
    /\ ev.was = NoTok => NoCredential /\ dom.loginCard = "shown"

(* A login of an unauthenticated controller was answered with a body that *)
(* is not JSON.                                                           *)
C6_Witness ==
  /\ AuthFailed
  /\ ev.name = "auth/login"
  /\ ev.r.st = "badjson"
  /\ ev.was = NoTok
  /\ dom.loginStatus = Status("Oshibka vhoda.")
  /\ ev.thrown = "caught"
  /\ NoCredential

(* The event e is a processed list payload of the sell view, of the      *)
(* market view.                                                           *)
SellPayload(e) ==
  e.op = "response" /\ e.name \in {"sell", "sell/confirm"} /\ e.r.st = "ok"
MarketPayload(e) ==
  /\ e.op = "response"
  /\ e.name \in {"market", "market/list", "market/buy", "market/cancel"}
  /\ e.r.st = "ok"

(* C7: when a list payload of the sell view, or of the market view, is    *)
(* processed while the view's selection is an item the payload does not   *)
(* hold, the selection is empty afterwards and the selection notice shows *)
(* the prompt.                                                            *)
C7_StaleSelectionDropped ==
  [][ /\ (/\ SellPayload(ev')
          /\ sellState.selected # 0
          /\ sellState.selected \notin ev'.r.items)
         => /\ sellState'.selected = 0
            /\ dom'.sellSelected = "Vyberite predmet dlya prodazhi."
      /\ (/\ MarketPayload(ev')
          /\ marketState.selected # 0
          /\ marketState.selected \notin ev'.r.items)
         => /\ marketState'.selected = 0
            /\ dom'.marketSelected = "Vyberite predmet dlya lota." ]_vars

(* The endpoint a paginated view is fetched from and the page a request   *)
(* to it asks for.                                                        *)
ViewEndpoint(view) ==
  CASE view = "blueprint" -> "blueprints"
    [] view = "loadout" -> "loadout/options"
    [] view = "marketItems" -> "market"
    [] OTHER -> view
RequestedPage(req, view) == IF view = "marketItems" THEN req.ipage ELSE req.page

(* The step is a click on the page button dir of the view.                *)
PageClicked(view, dir) == ev'.op = dir /\ ev'.name = view

(* The step sends exactly one request: to the view's endpoint, for page p. *)
SendsPage(view, p) ==
  /\ Len(issued') = 1
  /\ issued'[1].ep = ViewEndpoint(view)
  /\ RequestedPage(issued'[1], view) = p

(* What a page click does to a view whose requests are not guarded.       *)
PagingOf(view) ==
  /\ PageClicked(view, "prev") /\ PageOf(St, view) = 1 =>
       issued' = <<>> /\ PageOf(St, view)' = 1
  /\ PageClicked(view, "prev") /\ PageOf(St, view) = 2 =>
       SendsPage(view, 1) /\ PageOf(St, view)' = 1
  /\ PageClicked(view, "next") =>
       /\ PageOf(St, view)' = PageOf(St, view) + 1
       /\ SendsPage(view, PageOf(St, view) + 1)

(* C8, as the claim states it: in each of the six paginated views,        *)
(* "previous" at page 1 sends nothing and keeps page 1, "previous" at     *)
(* page 2 sends one request for page 1, and "next" increments the page    *)
(* and sends one request for it.                                          *)
C8_PagingAllViews == [][\A view \in PagedViews : PagingOf(view)]_vars

(* C8, amended: so it is in the storage, sell, blueprints, market         *)
(* listings and market items views, and in the loadout view while an      *)
(* equipment slot is selected; while none is selected, a loadout page     *)
(* click changes the page in the same way and sends no request.           *)
C8_Paging ==
  [][ /\ \A view \in PagedViews \ {"loadout"} : PagingOf(view)
      /\ loadoutState.equipType # "" => PagingOf("loadout")
      /\ (loadoutState.equipType = "" /\ ev'.name = "loadout"
            /\ ev'.op \in {"prev", "next"}) =>
           /\ issued' = <<>>
           /\ loadoutState'.page =
                (IF ev'.op = "next" THEN loadoutState.page + 1
                 ELSE IF loadoutState.page > 1 THEN loadoutState.page - 1
                 ELSE loadoutState.page) ]_vars

(* "previous" was clicked at page 2 of the market items: one request for  *)
(* page 1 of the items went out.                                          *)
C8_Witness ==
  /\ ev.op = "prev"
  /\ ev.name = "marketItems"
  /\ marketState.itemsPage = 1
  /\ Len(issued) = 1
  /\ issued[1].ep = "market"
  /\ issued[1].ipage = 1

(* The endpoints of the requests the step that led here sent.             *)
IssuedEndpoints == {issued[i].ep : i \in DOMAIN issued}

(* The endpoints of the views a tab shows.                                *)
TabEndpoints(name) ==
  CASE name = "raid" -> {"state"}
    [] name = "storage" -> {"storage", "sell"}
    [] name = "shop" -> {"shop"}
    [] name = "craft" -> {"craft", "blueprints"}
    [] name = "loadout" -> {"loadout"}
    [] name = "warehouse" -> {"warehouse"}
    [] name = "quests" -> {"state"}
    [] name = "market" -> {"market"}
    [] name = "rating" -> {"rating"}
    [] name = "season" -> {"season"}
    [] name = "case" -> {"daily_case"}
    [] name = "admin" -> {"admin/state"}

(* C9: a switch to a tab sends, while authenticated, one request to each  *)
(* endpoint of the tab's views and no other request, and while            *)
(* unauthenticated no request; it makes the tab the active one.           *)
C9_TabRefreshes ==
  ev.op = "tab" =>
    /\ activeTab = ev.name
    /\ IF authToken # NoTok
         THEN /\ IssuedEndpoints = TabEndpoints(ev.name)
              /\ Len(issued) = Cardinality(TabEndpoints(ev.name))
         ELSE issued = <<>>

(* The craft tab was opened while authenticated: the craft and the        *)
(* blueprints requests went out.                                          *)
C9_Witness ==
  /\ ev.op = "tab"
  /\ ev.name = "craft"
  /\ authToken # NoTok
  /\ Len(issued) = 2
  /\ IssuedEndpoints = {"craft", "blueprints"}

(* The event e is a processed 2xx JSON response to a state fetch or to a  *)
(* raid action.                                                           *)
CoreResponse(e) ==
  /\ e.op = "response"
  /\ e.name \in {"state"} \cup RaidEps
  /\ e.r.st \in {"ok", "nodata"}

(* The snapshot the response of event e carries (for a state fetch the    *)
(* body itself), or, for an action response without one, the snapshot     *)
(* cached before.                                                         *)
CarriedSnapshot(e) ==
  IF e.r.st = "ok" THEN e.r.state
  ELSE IF e.name = "state" THEN EmptySnap
  ELSE currentState

(* C10: when a 2xx response to a state fetch or to a raid action is       *)
(* processed while authenticated, the cached snapshot becomes the         *)
(* snapshot the response carries, whole, or stays the previous one when   *)
(* an action response carries none, and the session view and the actions  *)
(* block show the rendering of that snapshot.                             *)
C10_SnapshotReplaced ==
  [][ CoreResponse(ev') /\ authToken # NoTok =>
        LET snap == CarriedSnapshot(ev')
        IN /\ currentState' = snap
           /\ dom'.sessionBlock = renderSession(St, snap).dom.sessionBlock
           /\ dom'.actionsBlock.buttons = renderActions(St, snap).dom.actionsBlock.buttons
           /\ dom'.actionsBlock.text = renderActions(St, snap).dom.actionsBlock.text
    ]_vars

(* The actions of the buttons the actions block shows.                    *)
RenderedActions ==
  {dom.actionsBlock.buttons[i].action : i \in DOMAIN dom.actionsBlock.buttons}

(* The medkit action, when the snapshot allows it.                        *)
MedkitIfAllowed(d) == IF d.can_medkit THEN {"medkit"} ELSE {}

(* The action set of a snapshot: no session; a pending choice with        *)
(* choices; a pending item; combat; exploration, in this precedence.      *)
ExpectedActions(d) ==
  IF d.session = "none" THEN {"enter"}
  ELSE IF d.choice = "some" THEN {"choice:1", "choice:2"}
  ELSE IF d.pending_item THEN {"take", "skip"}
  ELSE IF d.session = "combat" THEN {"fight"} \cup MedkitIfAllowed(d)
  ELSE {"loot", "move", "evac"} \cup MedkitIfAllowed(d)

(* C11: while a snapshot is cached the actions block shows exactly the    *)
(* action set of that snapshot: enter without a session, the offered      *)
(* choices for a pending choice that has choices, take and skip for a     *)
(* pending item, fight (and medkit if allowed) in combat, loot, move and  *)
(* evac (and medkit if allowed) in exploration, in this precedence; and   *)
(* the fight button is never shown unless the cached snapshot has a       *)
(* session in combat.                                                     *)
C11_ActionSet ==
  /\ currentState # NoState => RenderedActions = ExpectedActions(currentState)
  /\ "fight" \in RenderedActions =>
       currentState # NoState /\ currentState.session = "combat"

(* A snapshot with both a pending choice and a pending item is cached and *)
(* the choice buttons are shown.                                          *)
C11_Witness ==
  /\ currentState # NoState
  /\ currentState.choice = "some"
  /\ currentState.pending_item
  /\ RenderedActions = {"choice:1", "choice:2"}

(* C12: a button of the actions block that is labelled with the seconds  *)
(* left of a cooldown is disabled, from the rendering of the snapshot     *)
(* that reported the cooldown until another snapshot is rendered: no      *)
(* other event enables it, so that the action cannot be requested through *)
(* the button in between.                                                 *)
C12_CooldownDisabled ==
  \A i \in DOMAIN dom.actionsBlock.buttons :
    dom.actionsBlock.buttons[i].secs > 0 => dom.actionsBlock.buttons[i].disabled

(* The endpoints of the requests the step that led here sent, in order.   *)
IssuedSeq == [i \in DOMAIN issued |-> issued[i].ep]

(* The step that led here processed a 2xx JSON response to a request of   *)
(* endpoint ep awaited by handler h.                                      *)
Processed(ep, h) ==
  /\ ev.op = "response"
  /\ ev.name = ep
  /\ ev.h = h
  /\ ev.r.st \in {"ok", "nodata"}

(* What opening the case does up to the storage refresh: the click sends  *)
(* the open request; its 2xx response sets the notice and, with items,    *)
(* the list, and sends the case-status request; the 2xx response to that  *)
(* sends the storage request; no request of the handler is sent in any    *)
(* other step.                                                            *)
CaseOpenSteps ==
  /\ ev.op = "click" /\ ev.name = "caseOpen" => IssuedSeq = <<"daily_case/open">>
  /\ Processed("daily_case/open", "openCase") =>
       /\ dom.notice.case = ev.r.msg
       /\ ev.r.st = "ok" => dom.caseList = ev.r.items
       /\ IssuedSeq = <<"daily_case">>
  /\ Processed("daily_case", "openCase") => IssuedSeq = <<"storage">>
  /\ Processed("state", "openCase") => issued = <<>>
  /\ \A i \in DOMAIN issued :
       issued[i].h = "openCase" =>
         \/ ev.op = "click" /\ ev.name = "caseOpen"
         \/ ev.op = "response" /\ ev.h = "openCase" /\ ev.r.st \in {"ok", "nodata"}

(* C13 as stated: after the open request succeeded, the case-status, the  *)
(* storage and the core-state requests are sent in this order, each in    *)
(* the step that processes the response to the one before.                *)
C13_CaseOpenAlwaysCore ==
  /\ CaseOpenSteps
  /\ Processed("storage", "openCase") => IssuedSeq = <<"state">>

(* C13: after the open request succeeded, the case-status and the storage *)
(* requests are sent in this order, each in the step that processes the   *)
(* response to the one before, and the core-state request follows the     *)
(* storage response if a credential is held then; without one the handler *)
(* ends with the storage response.                                        *)
C13_CaseOpenChain ==
  /\ CaseOpenSteps
  /\ Processed("storage", "openCase") =>
       IssuedSeq = IF authToken # NoTok THEN <<"state">> ELSE <<>>

(* The storage response of an opened case was processed with a credential *)
(* held, and the core-state request went out.                             *)
C13_Witness ==
  /\ Processed("storage", "openCase")
  /\ authToken # NoTok
  /\ IssuedSeq = <<"state">>
  /\ dom.notice.case = "msg"
  /\ dom.caseList = {1}

(* The event e is a processed 2xx JSON response, without the expected     *)
(* data key, to a request of a view (not an auth exchange, a state fetch  *)
(* or a raid action).                                                     *)
Rejected(e) ==
  /\ e.op = "response"
  /\ e.r.st = "nodata"
  /\ e.name \notin AuthEps \cup RaidEps \cup {"state"}

(* C14: when a 2xx response without the expected data key is processed,   *)
(* nothing changes on the page but a notice, which shows the response's   *)
(* message; the view states are those from before the user action that    *)
(* led to the request, the cached snapshot stays, and no request is sent. *)
C14_RejectionOnlyNotice ==
  [][ Rejected(ev') =>
        /\ Views' = ev'.pre
        /\ currentState' = currentState
        /\ issued' = <<>>
        /\ \/ dom' = dom
           \/ \E v \in DOMAIN dom.notice : dom' = [dom EXCEPT !.notice[v] = ev'.r.msg]
    ]_vars

(* C15: when the response processed is a transport failure, a body that   *)
(* is not JSON or a non-2xx status, the error is caught by the handler    *)
(* that awaits the request, at auth and non-auth call sites alike: it     *)
(* never ends as an unhandled error.                                      *)
C15_FailureCaught ==
  ev.op = "response" /\ ev.r.st \in Failures => ev.thrown # "unhandled"

(* The event e is a processed response that is a transport failure or a  *)
(* non-2xx status other than 401.                                         *)
Failed(e) == e.op = "response" /\ e.r.st \in {"err", "net"}

(* C16: processing a failed response (transport failure or non-2xx status *)
(* other than 401) sends no request, so the failed request is not issued  *)
(* again, and leaves the cached snapshot, the credential and everything   *)
(* rendered as they were, the text of the login status line excepted.     *)
C16_FailureLeavesState ==
  [][ Failed(ev') =>
        /\ issued' = <<>>
        /\ inflight' \in {Without(inflight, i) : i \in DOMAIN inflight}
        /\ currentState' = currentState
        /\ authToken' = authToken
        /\ localStorage' = localStorage
        /\ [dom' EXCEPT !.loginStatus = dom.loginStatus] = dom
    ]_vars

(* A crafting request failed with the recipes rendered: nothing was sent  *)
(* and the error was not caught.                                          *)
C16_Witness ==
  /\ ev.op = "response"
  /\ ev.name = "craft/make"
  /\ ev.r.st = "err"
  /\ dom.craftBtns = <<FALSE>>
  /\ authToken # NoTok
  /\ issued = <<>>

(* C17 as stated: no handler has two of its own requests in flight.  A   *)
(* handler sends its next request in the step that processes the         *)
(* response to the one before, so it has two in flight exactly when one   *)
(* step sends two.                                                        *)
C17_OneRequestPerStep == Len(issued) <= 1

(* C17: a step sends at most one request, except a switch to the storage  *)
(* tab, which sends the storage and the sell request together, and a      *)
(* switch to the craft tab, which sends the craft and the blueprints      *)
(* request together.                                                      *)
C17_OneRequestUnlessTab ==
  IF ev.op = "tab" /\ ev.name \in {"storage", "craft"} /\ authToken # NoTok
    THEN IssuedSeq = (IF ev.name = "storage" THEN <<"storage", "sell">>
                      ELSE <<"craft", "blueprints">>)
    ELSE Len(issued) <= 1

(* The shop refresh after a storage-upgrade purchase was processed and    *)
(* the storage refresh, alone, went out.                                  *)
C17_Witness ==
  /\ Processed("shop", "shopBuy")
  /\ IssuedSeq = <<"storage">>
  /\ \A i \in DOMAIN inflight : inflight[i].h = "shopBuy" => inflight[i].ep = "storage"

(* C18: the response to a raid request that carries a snapshot replaces   *)
(* the cached snapshot and the rendered actions whenever it is processed  *)
(* while authenticated, also when the response to a raid request sent     *)
(* later has been processed before it: the last response processed wins,  *)
(* not the last request sent.                                             *)
C18_LastResponseWins ==
  ev.op = "response" /\ ev.name \in RaidEps /\ ev.r.st = "ok" /\ authToken # NoTok =>
    /\ currentState = ev.r.state
    /\ RenderedActions = ExpectedActions(ev.r.state)

(* Two raid requests were sent; the response to the second, a snapshot in *)
(* combat, was processed first; the response to the first, a snapshot in  *)
(* exploration, was processed after it and is what is cached and shown.   *)
C18_Witness ==
  /\ ev.op = "response"
  /\ ev.name \in RaidEps
  /\ ev.r.st = "ok"
  /\ ev.late = "combat"
  /\ ev.r.state.session = "raid"
  /\ currentState = ev.r.state
  /\ dom.sessionBlock.status = "V reide"
  /\ "fight" \notin RenderedActions

(* The step handles an event of a view's own control: a click on one of  *)
(* its buttons or rows, or a response awaited by the handler of one.      *)
OwnControlStep ==
  \/ ev'.op \in {"prev", "next", "row"}
  \/ ev'.op = "click" /\ ev'.name \in {"data-sell", "data-market-qty", "lot", "data-equip", "data-equip=clear"}
  \/ ev'.op = "response" /\ ev'.h = ""

(* C19 as stated: the state of a paginated view changes only in steps     *)
(* triggered by a view's own controls; a tab switch, a purchase in the    *)
(* shop, crafting, the study of a blueprint, the daily case and the raid  *)
(* actions leave the view states as they are.                             *)
C19_OnlyOwnControls == [][ Views' # Views => OwnControlStep ]_vars

(* The step is a click on a page button of the view.                      *)
PageStep(view) == ev'.op \in {"prev", "next"} /\ ev'.name = view

(* The step processes a 2xx response, with its data, of one of the        *)
(* endpoints.                                                             *)
DataStep(eps) == ev'.op = "response" /\ ev'.name \in eps /\ ev'.r.st = "ok"

(* C19: the state of a paginated view changes only in a step of the       *)
(* view's own controls or in a step that processes a response carrying    *)
(* the view's data, whichever handler sent the request; no handler of     *)
(* another view writes it and no other response changes it.               *)
C19_OwnControlsOrRefresh ==
  [][ /\ storageState' # storageState =>
           PageStep("storage") \/ DataStep({"storage"})
      /\ sellState' # sellState =>
           \/ PageStep("sell")
           \/ ev'.op = "row" /\ ev'.name = "sell"
           \/ DataStep({"sell", "sell/confirm"})
      /\ blueprintState' # blueprintState =>
           PageStep("blueprint") \/ DataStep({"blueprints"})
      /\ loadoutState' # loadoutState =>
           PageStep("loadout") \/ (ev'.op = "click" /\ ev'.name \in {"data-equip", "data-equip=clear"})
      /\ marketState' # marketState =>
           \/ PageStep("market")
           \/ PageStep("marketItems")
           \/ ev'.op = "row" /\ ev'.name = "market"
           \/ DataStep({"market", "market/list", "market/buy", "market/cancel"})
    ]_vars

(* The storage refresh that follows a purchase in the shop was processed  *)
(* and changed the page of the storage view.                              *)
C19_Witness ==
  /\ ev.op = "response"
  /\ ev.name = "storage"
  /\ ev.h = "shopBuy"
  /\ ev.r.st = "ok"
  /\ storageState.page = ev.r.page
  /\ ev.pre.storage.page # storageState.page

(* The step restores the credential at a page load or processes a        *)
(* successful login, registration or Telegram exchange.                   *)
CredentialSetStep ==
  \/ ev'.op = "load"
  \/ /\ ev'.op = "response"
     /\ ev'.name \in AuthEps
     /\ ev'.r.st = "ok"
     /\ ev'.r.token # NoTok

(* The step is a click on logout or processes a 401 response.             *)
CredentialClearedStep ==
  \/ ev'.op = "click" /\ ev'.name = "logoutBtn"
  \/ ev'.op = "response" /\ ev'.r.st = "401"

(* C20: the credential goes from empty to non-empty only at a page load   *)
(* or when a successful login, registration or Telegram exchange is       *)
(* processed, and from non-empty to empty only at a logout or when a 401  *)
(* is processed; no other step changes the credential held in memory,     *)
(* sent in the envelope or persisted.                                     *)
C20_CredentialLifecycle ==
  [][ /\ authToken = NoTok /\ authToken' # NoTok => CredentialSetStep
      /\ authToken # NoTok /\ authToken' = NoTok => CredentialClearedStep
      /\ \/ authToken' # authToken
         \/ localStorage' # localStorage
         \/ statePayload'.auth_token # statePayload.auth_token
         => CredentialSetStep \/ CredentialClearedStep
    ]_vars

(* A 401 was processed while a credential was held and it is gone, in     *)
(* memory and in the storage.                                             *)
C20_Witness ==
  /\ ev.op = "response"
  /\ ev.r.st = "401"
  /\ ev.was # NoTok
  /\ authToken = NoTok
  /\ localStorage = NoTok

(* C21: while no credential is held every control that toggleAppButtons   *)
(* reaches is disabled, also after a response to a request sent before    *)
(* the logout or the 401 has been processed and has rendered its view.    *)
C21_UnauthenticatedDisabled ==
  authToken = NoTok => ControlsAre(dom, TRUE)

(* C22: every request to an endpoint other than the auth endpoints is     *)
(* issued with a credential: none is sent while no credential is held.    *)
C22_NoRequestUnauthenticated ==
  \A i \in DOMAIN issued :
    issued[i].ep \notin AuthEps => issued[i].tok # NoTok /\ authToken # NoTok

(* C23: a 2xx response to a state fetch or to a raid action changes the   *)
(* cached snapshot, the session view or the actions block only if the    *)
(* credential held when it is processed is the credential its request    *)
(* was sent with.                                                         *)
C23_OwnSessionOnly ==
  [][ /\ CoreResponse(ev')
      /\ \/ currentState' # currentState
         \/ dom'.sessionBlock # dom.sessionBlock
         \/ dom'.actionsBlock # dom.actionsBlock
      => ev'.tok = authToken
    ]_vars

(* C24: after a successful response carrying the list of a paginated     *)
(* view has been processed, the page number the view keeps is the page    *)
(* number of that response: storage, sell, blueprints, loadout options,   *)
(* market listings and market items, the responses to the confirm and     *)
(* upgrade requests included.                                             *)
C24_PageAgrees ==
  ev.op = "response" /\ ev.r.st = "ok" =>
    /\ ev.name \in {"storage", "storage/upgrade"} => storageState.page = ev.r.page
    /\ ev.name \in {"sell", "sell/confirm"} => sellState.page = ev.r.page
    /\ ev.name \in {"market", "market/list", "market/buy", "market/cancel"} =>
         /\ marketState.page = ev.r.page
         /\ marketState.itemsPage = ev.r.ipage
    /\ ev.name = "blueprints" => blueprintState.page = ev.r.page
    /\ ev.name = "loadout/options" => loadoutState.page = ev.r.page

(* The step sent no request and changed nothing but the given page.      *)
OnlyPageBecomes(d) ==
  /\ issued' = <<>>
  /\ inflight' = inflight
  /\ Views' = Views
  /\ currentState' = currentState
  /\ authToken' = authToken
  /\ statePayload' = statePayload
  /\ localStorage' = localStorage
  /\ activeTab' = activeTab
  /\ dom' = d

=============================================================================
